---- MODULE Spec2Model ----
(***************************************************************************)
(* PredicateColumnType<T> (be/src/vec/columns/predicate_column.h): the     *)
(* raw-value container of the storage layer, its insertion entry points,   *)
(* filter_by_selector and the guarded generic column operations.           *)
(*                                                                         *)
(* One behaviour is one instantiation: T is chosen in Init and never       *)
(* changes.  Objects of a native scalar type are modelled by their object  *)
(* representation (a little-endian byte sequence of sizeof(T) bytes), a    *)
(* StringValue by its (ptr, len) pair where ptr is (buffer, offset).       *)
(* Indices are 0-based in the code and 1-based in sequences here.          *)
(***************************************************************************)
EXTENDS Integers, Sequences, FiniteSets, TLC

(* ------------------------------ bounds --------------------------------- *)
\* largest n passed to reserve(n), and largest capacity push_back grows to
MaxReserve == 2
\* largest sel_size passed to filter_by_selector
MaxSel == 2
\* largest num passed to an insert_many_* entry point
MaxBatch == 2

(* ------------------------------ types ---------------------------------- *)
\* the T for which filter_by_selector has a branch (a decode rule)
SupportedTypes ==
    {"StringValue", "decimal12_t", "Int8", "Int16", "Int32", "Int64",
     "Float32", "Float64", "uint64_t", "uint24_t", "Int128", "bool"}

\* a T that compiles but reaches the final else of filter_by_selector
UnsupportedTypes == {"UInt32"}

Types == SupportedTypes \cup UnsupportedTypes

\* the T that filter_by_selector sends to insert_default_value_res_column
DirectCopyTypes ==
    {"Int8", "Int16", "Int32", "Int64", "Float32", "Float64", "Int128"}

\* sizeof(T)
SizeOf(t) ==
    CASE t = "StringValue" -> 16
      [] t = "decimal12_t" -> 12
      [] t = "Int8"        -> 1
      [] t = "Int16"       -> 2
      [] t = "Int32"       -> 4
      [] t = "Int64"       -> 8
      [] t = "Float32"     -> 4
      [] t = "Float64"     -> 8
      [] t = "uint64_t"    -> 8
      [] t = "uint24_t"    -> 3
      [] t = "Int128"      -> 16
      [] t = "bool"        -> 1
      [] t = "UInt32"      -> 4

\* the column class filter_by_selector casts col_ptr to, per T
ExpectedDest(t) ==
    CASE t = "StringValue" -> "ColumnString"
      [] t = "decimal12_t" -> "ColumnDecimal<Decimal128>"
      [] t = "Int8"        -> "ColumnVector<Int8>"
      [] t = "Int16"       -> "ColumnVector<Int16>"
      [] t = "Int32"       -> "ColumnVector<Int32>"
      [] t = "Int64"       -> "ColumnVector<Int64>"
      [] t = "Float32"     -> "ColumnVector<Float32>"
      [] t = "Float64"     -> "ColumnVector<Float64>"
      [] t = "uint64_t"    -> "ColumnVector<Int64>"
      [] t = "uint24_t"    -> "ColumnVector<Int64>"
      [] t = "Int128"      -> "ColumnVector<Int128>"
      [] t = "bool"        -> "ColumnVector<UInt8>"
      [] OTHER             -> "none"

(* ------------------------------ bytes ---------------------------------- *)
Rep(b, n) == [i \in 1..n |-> b]

RECURSIVE FromLE(_)
\* the unsigned value of a little-endian byte sequence
FromLE(b) == IF b = <<>> THEN 0 ELSE b[1] + 256 * FromLE(Tail(b))

RECURSIVE ToLE(_, _)
\* the n-byte little-endian representation of v >= 0
ToLE(v, n) == IF n = 0 THEN <<>> ELSE <<v % 256>> \o ToLE(v \div 256, n - 1)

Complement(b) == [i \in 1..Len(b) |-> 255 - b[i]]

\* two's complement, little-endian
ToLESigned(v, n) == IF v >= 0 THEN ToLE(v, n) ELSE Complement(ToLE(-v - 1, n))

FromLESigned(b) ==
    IF b[Len(b)] >= 128 THEN -1 - FromLE(Complement(b)) ELSE FromLE(b)

RECURSIVE BitOr(_, _)
\* a | b on naturals
BitOr(a, b) ==
    IF a = 0 THEN b
    ELSE IF b = 0 THEN a
    ELSE (IF a % 2 = 1 \/ b % 2 = 1 THEN 1 ELSE 0) + 2 * BitOr(a \div 2, b \div 2)

RECURSIVE BigMulAdd(_, _, _)
\* (b * m + a) on a fixed-width little-endian number
BigMulAdd(b, m, a) ==
    IF b = <<>> THEN <<>>
    ELSE LET x == b[1] * m + a
         IN  <<x % 256>> \o BigMulAdd(Tail(b), m, x \div 256)

RECURSIVE BigDivMod(_, _)
\* quotient (little-endian bytes) and remainder of b / d
BigDivMod(b, d) ==
    IF b = <<>> THEN [q |-> <<>>, r |-> 0]
    ELSE LET hi == BigDivMod(Tail(b), d)
             x  == hi.r * 256 + b[1]
         IN  [q |-> <<x \div d>> \o hi.q, r |-> x % d]

RECURSIVE Flatten(_)
Flatten(ss) == IF ss = <<>> THEN <<>> ELSE Head(ss) \o Flatten(Tail(ss))

(* ------------------------- domain codecs ------------------------------- *)
\* VecDateTimeValue::from_olap_date: day in bits 0..4, month in 5..8, year above
from_olap_date(v) ==
    [type |-> "TIME_DATE", year |-> v \div 512, month |-> (v \div 32) % 16,
     day |-> v % 32, hour |-> 0, minute |-> 0, second |-> 0]

\* VecDateTimeValue::to_olap_date
to_olap_date(d) == d.year * 512 + d.month * 32 + d.day

\* VecDateTimeValue(int64_t) = from_date_int64: the decimal digits YYYYMMDDHHMMSS
from_date_int64(b) ==
    LET dm   == BigDivMod(b, 1000000)
        date == FromLE(dm.q)
        time == dm.r
    IN  [type |-> "TIME_DATETIME", year |-> date \div 10000,
         month |-> (date % 10000) \div 100, day |-> date % 100,
         hour |-> time \div 10000, minute |-> (time % 10000) \div 100,
         second |-> time % 100]

\* VecDateTimeValue::to_olap_datetime, as the 8 bytes of the uint64_t
to_olap_datetime(d) ==
    BigMulAdd(BigMulAdd(BigMulAdd(BigMulAdd(BigMulAdd(
        ToLE(d.year, 8), 100, d.month), 100, d.day), 100, d.hour),
        100, d.minute), 100, d.second)

Abs(x) == IF x < 0 THEN -x ELSE x

\* DecimalV2Value(int_value, frac_value): sign * (|int| * 10^9 + |frac|), the
\* fraction clamped to 999999999; kept as (neg, int, frac) since the 128-bit
\* product does not fit the model's integers
DecimalV2Value(int_value, frac_value) ==
    LET i == Abs(int_value)
        f == IF Abs(frac_value) > 999999999 THEN 999999999 ELSE Abs(frac_value)
    IN  [neg  |-> (int_value < 0 \/ frac_value < 0) /\ (i # 0 \/ f # 0),
         int  |-> i,
         frac |-> f]

\* the decimal12_t {int64 integer; int32 fraction} storage writes for a decimal
to_decimal12(v) ==
    LET sgn == IF v.neg THEN -1 ELSE 1
    IN  ToLESigned(sgn * v.int, 8) \o ToLESigned(sgn * v.frac, 4)

(* ------------------------- external buffers ---------------------------- *)
\* the dictionary page of the dictionary example: "hello" "abcd" "xyz"
DictBuffer == <<"h", "e", "l", "l", "o", "a", "b", "c", "d", "x", "y", "z">>
DictOffsets == <<5, 0, 9>>
DictLengths == <<4, 5, 3>>
\* the code arrays a dictionary page reader hands over
DictCodes == {<<2, 0, 1>>}

\* a plain binary page: "foo" "bar"
PageBuffer == <<"f", "o", "o", "b", "a", "r">>
PageOffsets == <<0, 3>>
PageLengths == <<3, 3>>

NullPtr == [buf |-> "null", off |-> 0]

\* the bytes [ptr, ptr + len) of the external memory m
BytesAt(m, ptr, len) ==
    IF len = 0 THEN <<>> ELSE SubSeq(m[ptr.buf].bytes, ptr.off + 1, ptr.off + len)

\* the places whose byte the owner of a buffer may overwrite (with "#")
ModPlaces == {[buf |-> "dict", pos |-> 6], [buf |-> "page", pos |-> 1]}

(* ------------------------- values of the model ------------------------- *)
\* the semantic values the storage layer holds, per T
SourceValues(t) ==
    CASE t = "uint24_t" ->
           {[type |-> "TIME_DATE", year |-> 2022, month |-> 1, day |-> 31,
             hour |-> 0, minute |-> 0, second |-> 0],
            [type |-> "TIME_DATE", year |-> 1999, month |-> 12, day |-> 5,
             hour |-> 0, minute |-> 0, second |-> 0]}
      [] t = "uint64_t" ->
           {[type |-> "TIME_DATETIME", year |-> 2022, month |-> 1, day |-> 31,
             hour |-> 23, minute |-> 59, second |-> 58],
            [type |-> "TIME_DATETIME", year |-> 1999, month |-> 12, day |-> 5,
             hour |-> 0, minute |-> 7, second |-> 1]}
      [] t = "decimal12_t" ->
           {[neg |-> FALSE, int |-> 123, frac |-> 450000000],
            [neg |-> TRUE, int |-> 1, frac |-> 500000000]}
      [] t = "bool" -> {<<0>>, <<1>>}
      [] t = "StringValue" ->
           {[ptr |-> [buf |-> "page", off |-> 0], len |-> 3],
            [ptr |-> [buf |-> "page", off |-> 3], len |-> 3]}
      [] OTHER -> {[i \in 1..SizeOf(t) |-> i], Rep(255, SizeOf(t))}

\* the raw value storage hands to the insertion path for a semantic value
Encode(t, v) ==
    CASE t = "uint24_t"    -> ToLE(to_olap_date(v), 3)
      [] t = "uint64_t"    -> to_olap_datetime(v)
      [] t = "decimal12_t" -> to_decimal12(v)
      [] OTHER             -> v

\* T(): the value-initialised element insert_default pushes
DefaultValue(t) ==
    IF t = "StringValue" THEN [ptr |-> NullPtr, len |-> 0] ELSE Rep(0, SizeOf(t))

\* the decode rule of T applied to one raw element (m: the external memory)
Decoded(t, raw, m) ==
    CASE t = "uint24_t"    -> from_olap_date(FromLE(raw))
      [] t = "uint64_t"    -> from_date_int64(raw)
      [] t = "decimal12_t" ->
           DecimalV2Value(FromLESigned(SubSeq(raw, 1, 8)),
                          FromLESigned(SubSeq(raw, 9, 12)))
      [] t = "StringValue" -> BytesAt(m, raw.ptr, raw.len)
      [] OTHER             -> raw

(* ------------------------------ state ---------------------------------- *)
VARIABLES
    T,          \* the template argument of this instantiation
    data,       \* Container data: the elements [c_start, c_end)
    capacity,   \* elements the backing storage of data has room for
    bufs,       \* external memory: buffer name -> [bytes, ver]; ver counts writes
    status,     \* "running" | "fatal" (LOG(FATAL)/DCHECK abort) | "segv" | "undefined"
    fatalMsg,   \* the words of the message LOG(FATAL) wrote
    call,       \* the call in progress: its name, arguments and what it
                \* returned; [op |-> "idle"] between calls
    rows,       \* history: one record per row inserted since the last clear
    batch       \* history: the values of the insert_many_fix_len_data call
                \* that filled the empty container, while it holds just them

vars == <<T, data, capacity, bufs, status, fatalMsg, call, rows, batch>>

\* the scan task is between two calls (one task drives an instance, and every
\* operation is synchronous)
Running == status = "running" /\ call.op = "idle"

NoBatch == [valid |-> FALSE, vals |-> <<>>]

(* ------------------------ PaddedPODArray<T> ---------------------------- *)
\* PODArray::reserve(n): reallocates only when n exceeds the capacity
PODArray_reserve(cap, n) == IF n > cap THEN n ELSE cap

\* PODArray::push_back: grows geometrically when full, then appends
PODArray_push_back_capacity(cap, len) ==
    IF len < cap THEN cap ELSE IF cap = 0 THEN 1 ELSE 2 * cap

\* PODArray::push_back_without_reserve(x): writes x at c_end and advances c_end,
\* with no look at the end of the storage
push_back_without_reserve(d, x) == Append(d, x)

(* --------------------------- insertion path ---------------------------- *)
\* insert_string_value(data_ptr, length)
insert_string_value(d, data_ptr, length) ==
    push_back_without_reserve(d, [ptr |-> data_ptr, len |-> length])

\* insert_decimal_value: integer from bytes 0..7, fraction from bytes 8..11
insert_decimal_value(d, bytes, length) ==
    LET integer  == SubSeq(bytes, 1, 8)
        fraction == SubSeq(bytes, 8 + 1, 8 + 4)
    IN  push_back_without_reserve(d, integer \o fraction)

\* insert_in_copy_way: memcpy(&val, data_ptr, sizeof(val))
insert_in_copy_way(d, t, bytes, length) ==
    push_back_without_reserve(d, SubSeq(bytes, 1, SizeOf(t)))

\* insert_default_type: *(T*)data_ptr
insert_default_type(d, t, bytes, length) ==
    push_back_without_reserve(d, SubSeq(bytes, 1, SizeOf(t)))

\* insert_data(data_ptr, length); p is the pointer for a string T and the
\* bytes behind the pointer for any other T
insert_data(d, t, p, length) ==
    IF t = "StringValue" THEN insert_string_value(d, p, length)
    ELSE IF t = "decimal12_t" THEN insert_decimal_value(d, p, length)
    ELSE IF t = "Int128" THEN insert_in_copy_way(d, t, p, length)
    ELSE insert_default_type(d, t, p, length)

RECURSIVE insert_many_default_type_loop(_, _, _, _, _)
\* for (i = 0; i < num; i++) res_val_ptr[i] = input_val_ptr[i]
insert_many_default_type_loop(d, t, bytes, num, i) ==
    IF i < num
    THEN insert_many_default_type_loop(
             Append(d, SubSeq(bytes, i * SizeOf(t) + 1, (i + 1) * SizeOf(t))),
             t, bytes, num, i + 1)
    ELSE d

\* faulty variant of insert_many_default_type: res_val_ptr[i] = input_val_ptr[0]
insert_many_default_type_first_only(d, t, bytes, num) ==
    d \o [i \in 1..num |-> SubSeq(bytes, 1, SizeOf(t))]

\* insert_many_default_type(data_ptr, num)
insert_many_default_type(d, t, bytes, num) ==
    insert_many_default_type_loop(d, t, bytes, num, 0)

RECURSIVE Chunks(_, _)
\* a run of bytes seen as consecutive objects of sz bytes
Chunks(bytes, sz) ==
    IF Len(bytes) < sz THEN <<>>
    ELSE <<SubSeq(bytes, 1, sz)>> \o Chunks(SubSeq(bytes, sz + 1, Len(bytes)), sz)

\* insert_many_in_copy_way: memcpy(end, data_ptr, num * sizeof(T)), end += that
insert_many_in_copy_way(d, t, bytes, num) ==
    d \o Chunks(SubSeq(bytes, 1, num * SizeOf(t)), SizeOf(t))

\* insert_many_fix_len_data(data_ptr, num)
insert_many_fix_len_data(d, t, bytes, num) ==
    IF t = "decimal12_t" THEN insert_many_in_copy_way(d, t, bytes, num)
    ELSE IF t = "Int128" THEN insert_many_in_copy_way(d, t, bytes, num)
    ELSE IF t = "StringValue" THEN d
    ELSE insert_many_default_type(d, t, bytes, num)

RECURSIVE insert_many_dict_data_loop(_, _, _, _, _, _, _, _)
\* for (i = 0; i < num; i++, start_index++) insert_string_value(dict + off, len)
insert_many_dict_data_loop(d, data_array, start_index, start_offset_array, len_array, dict_data, num, i) ==
    IF i < num
    THEN LET codeword     == data_array[start_index + 1]
             start_offset == start_offset_array[codeword + 1]
             str_len      == len_array[codeword + 1]
         IN  insert_many_dict_data_loop(
                 insert_string_value(
                     d, [buf |-> dict_data, off |-> start_offset], str_len),
                 data_array, start_index + 1, start_offset_array, len_array,
                 dict_data, num, i + 1)
    ELSE d

\* faulty variant of insert_many_dict_data: looks the offset and the length up
\* by the row index instead of by the code of the row
insert_many_dict_data_by_row(d, t, data_array, start_index, start_offset_array, len_array, dict_data, num) ==
    IF t = "StringValue"
    THEN d \o [i \in 1..num |->
                  [ptr |-> [buf |-> dict_data, off |-> start_offset_array[start_index + i]],
                   len |-> len_array[start_index + i]]]
    ELSE d

\* insert_many_dict_data(data_array, start_index, start_offset_array, len_array,
\*                       dict_data, num)
insert_many_dict_data(d, t, data_array, start_index, start_offset_array, len_array, dict_data, num) ==
    IF t = "StringValue"
    THEN insert_many_dict_data_loop(d, data_array, start_index,
                                    start_offset_array, len_array, dict_data, num, 0)
    ELSE d

RECURSIVE insert_many_binary_data_loop(_, _, _, _, _, _)
\* for (i = 0; i < num; i++) insert_string_value(data_array + off[i], len[i])
insert_many_binary_data_loop(d, data_array, len_array, start_offset_array, num, i) ==
    IF i < num
    THEN LET len          == len_array[i + 1]
             start_offset == start_offset_array[i + 1]
         IN  insert_many_binary_data_loop(
                 insert_string_value(
                     d, [buf |-> data_array, off |-> start_offset], len),
                 data_array, len_array, start_offset_array, num, i + 1)
    ELSE d

\* insert_many_binary_data(data_array, len_array, start_offset_array, num)
insert_many_binary_data(d, t, data_array, len_array, start_offset_array, num) ==
    IF t = "StringValue"
    THEN insert_many_binary_data_loop(d, data_array, len_array,
                                      start_offset_array, num, 0)
    ELSE d

(* ----------------------- selective materialization -------------------- *)
\* data[idx]: PODArray::operator[] has no bounds check; a slot at or past
\* size() holds whatever the memory there holds (g)
PODArray_at(d, g, idx) == IF idx < Len(d) THEN d[idx + 1] ELSE g

\* IColumn::insert_data of the destination column: appends one value
IColumn_insert_data(res, v) == Append(res, v)

\* faulty variant of get_date_at: takes the first byte as the most significant
get_date_at_big_endian(d, g, idx) ==
    LET val == PODArray_at(d, g, idx)
    IN  (val[0 + 1] * 256 + val[1 + 1]) * 256 + val[2 + 1]

\* get_date_at(idx): the three bytes of the uint24_t, most significant first
get_date_at(d, g, idx) ==
    LET val == PODArray_at(d, g, idx)
        v2  == val[2 + 1]
        v1  == BitOr(v2 * 256, val[1 + 1])
        v0  == BitOr(v1 * 256, val[0 + 1])
    IN  v0

RECURSIVE insert_date_loop(_, _, _, _, _)
insert_date_loop(d, g, sel, res, i) ==
    IF i < Len(sel)
    THEN LET date == from_olap_date(get_date_at(d, g, sel[i + 1]))
         IN  insert_date_loop(d, g, sel, IColumn_insert_data(res, date), i + 1)
    ELSE res

\* insert_date_to_res_column(sel, sel_size, res_ptr)
insert_date_to_res_column(d, g, sel, res) == insert_date_loop(d, g, sel, res, 0)

RECURSIVE insert_datetime_loop(_, _, _, _, _)
insert_datetime_loop(d, g, sel, res, i) ==
    IF i < Len(sel)
    THEN LET value == PODArray_at(d, g, sel[i + 1])
             date  == from_date_int64(value)
         IN  insert_datetime_loop(d, g, sel, IColumn_insert_data(res, date), i + 1)
    ELSE res

\* insert_datetime_to_res_column(sel, sel_size, res_ptr)
insert_datetime_to_res_column(d, g, sel, res) ==
    insert_datetime_loop(d, g, sel, res, 0)

RECURSIVE insert_string_loop(_, _, _, _, _, _)
insert_string_loop(d, g, m, sel, res, i) ==
    IF i < Len(sel)
    THEN LET n  == sel[i + 1]
             sv == PODArray_at(d, g, n)
         IN  insert_string_loop(
                 d, g, m, sel,
                 IColumn_insert_data(res, BytesAt(m, sv.ptr, sv.len)), i + 1)
    ELSE res

\* faulty variant of insert_string_to_res_column: copies sv.len - 1 bytes
insert_string_to_res_column_short(d, g, m, sel, res) ==
    res \o [k \in 1..Len(sel) |->
               LET sv == PODArray_at(d, g, sel[k])
               IN  BytesAt(m, sv.ptr, IF sv.len > 0 THEN sv.len - 1 ELSE 0)]

\* insert_string_to_res_column: ColumnString::insert_data(sv.ptr, sv.len)
\* copies the sv.len bytes at sv.ptr as they are in memory m at this moment
insert_string_to_res_column(d, g, m, sel, res) ==
    insert_string_loop(d, g, m, sel, res, 0)

RECURSIVE insert_decimal_loop(_, _, _, _, _)
insert_decimal_loop(d, g, sel, res, i) ==
    IF i < Len(sel)
    THEN LET n        == sel[i + 1]
             dv       == PODArray_at(d, g, n)
             integer  == FromLESigned(SubSeq(dv, 1, 8))
             fraction == FromLESigned(SubSeq(dv, 9, 12))
             dv_data  == DecimalV2Value(integer, fraction)
         IN  insert_decimal_loop(d, g, sel, IColumn_insert_data(res, dv_data), i + 1)
    ELSE res

\* insert_decimal_to_res_column(sel, sel_size, res_ptr)
insert_decimal_to_res_column(d, g, sel, res) ==
    insert_decimal_loop(d, g, sel, res, 0)

RECURSIVE insert_default_value_loop(_, _, _, _, _)
\* y[i] = T(data[sel[i]]), y being the end of the destination's elements
insert_default_value_loop(d, g, sel, y, i) ==
    IF i < Len(sel)
    THEN insert_default_value_loop(
             d, g, sel, Append(y, PODArray_at(d, g, sel[i + 1])), i + 1)
    ELSE y

\* faulty variant of insert_default_value_res_column: y[i] = T(data[i])
insert_default_value_res_column_ignoring_sel(d, g, sel, res) ==
    res \o [i \in 1..Len(sel) |-> PODArray_at(d, g, i - 1)]

\* insert_default_value_res_column after its DCHECK and reserve: the writes
\* through y and set_end_ptr(y + sel_size)
insert_default_value_res_column(d, g, sel, res) ==
    insert_default_value_loop(d, g, sel, res, 0)

RECURSIVE insert_byte_loop(_, _, _, _, _, _)
insert_byte_loop(d, g, sel, res, destType, i) ==
    IF i < Len(sel)
    THEN LET n      == sel[i + 1]
             ch_val == PODArray_at(d, g, n)
             \* the virtual insert_data(ch_val, 0): a string column copies 0
             \* bytes, a byte column reads the one byte at ch_val
             v      == IF destType = "ColumnString" THEN <<>> ELSE ch_val
         IN  insert_byte_loop(d, g, sel, IColumn_insert_data(res, v), destType, i + 1)
    ELSE res

\* insert_byte_to_res_column(sel, sel_size, res_ptr)
insert_byte_to_res_column(d, g, sel, res, destType) ==
    insert_byte_loop(d, g, sel, res, destType, 0)

\* the branch of filter_by_selector for a supported t, on well-typed arguments
Materialize(t, d, g, m, sel, col) ==
    CASE t = "StringValue" -> insert_string_to_res_column(d, g, m, sel, col.elems)
      [] t = "decimal12_t" -> insert_decimal_to_res_column(d, g, sel, col.elems)
      [] t = "uint64_t"    -> insert_datetime_to_res_column(d, g, sel, col.elems)
      [] t = "uint24_t"    -> insert_date_to_res_column(d, g, sel, col.elems)
      [] t = "bool"        -> insert_byte_to_res_column(d, g, sel, col.elems, col.type)
      [] OTHER             -> insert_default_value_res_column(d, g, sel, col.elems)

\* what a slot past size() may hold: zeroes, or an element written earlier
Junk(t) == {DefaultValue(t), Encode(t, CHOOSE v \in SourceValues(t) : TRUE)}

\* glog's message for DCHECK(res_data.empty())
DCheckMsg == <<"Check", "failed:", "res_data.empty()">>

Outcome(st, msg, ret, dest, reads) ==
    [status |-> st, msg |-> msg, ret |-> ret, dest |-> dest, reads |-> reads]

\* the destination is a column the T-branch may be handed: the class it casts
\* to, or for bool (no cast, virtual insert_data) a byte or a string column
WellTyped(t, col) ==
    \/ col.type = ExpectedDest(t)
    \/ t = "bool" /\ col.type = "ColumnString"

\* the branch of filter_by_selector for a supported t: the set of ways it can end.
\* - col_ptr reinterpret_cast to a class the column is not: undefined as soon
\*   as the pointer is used, which the direct-copy branch does at once
\*   (get_data()) and the other branches do once per selected row;
\* - direct-copy branch on a non-empty destination: DCHECK aborts a debug build,
\*   a release build writes from the end pointer after reserve(sel_size), past
\*   the storage when size + sel_size exceeds it: undefined;
\* - an index >= size(): the read of data[idx] is out of bounds: undefined.
filter_by_selector_branch(t, d, m, sel, col) ==
    IF ~WellTyped(t, col)
    THEN IF t \notin DirectCopyTypes /\ sel = <<>>
         THEN {Outcome("running", <<>>, "OK", col.elems, <<>>)}
         ELSE {Outcome(st, <<>>, "none", col.elems, sel) : st \in {"segv", "undefined"}}
    ELSE LET oob      == \E k \in 1..Len(sel) : sel[k] >= Len(d)
             direct   == t \in DirectCopyTypes
             overflow == direct /\ Len(col.elems) + Len(sel)
                                     > PODArray_reserve(col.cap, Len(sel))
         IN  (IF direct /\ col.elems # <<>>
              THEN {Outcome("fatal", DCheckMsg, "none", col.elems, <<>>)}
              ELSE {})
             \cup
             (IF oob \/ overflow
              THEN {Outcome("segv", <<>>, "none", col.elems, sel)}
                   \cup {Outcome("undefined", <<>>, "OK",
                                 Materialize(t, d, g, m, sel, col), sel)
                         : g \in Junk(t)}
              ELSE {Outcome("running", <<>>, "OK",
                            Materialize(t, d, DefaultValue(t), m, sel, col), sel)})

\* faulty variant of filter_by_selector: no final else, a T without a branch
\* takes the last one (bool)
filter_by_selector_without_else(t, d, m, sel, col) ==
    filter_by_selector_branch(IF t \in SupportedTypes THEN t ELSE "bool",
                              d, m, sel, col)

\* filter_by_selector(sel, sel_size, col_ptr): the set of ways the call can end;
\* Status::NotSupported, with nothing touched, when T has no branch
filter_by_selector(t, d, m, sel, col) ==
    IF t \notin SupportedTypes
    THEN {Outcome("running", <<>>, "NotSupported", col.elems, <<>>)}
    ELSE filter_by_selector_branch(t, d, m, sel, col)

(* ------------------------------ inputs --------------------------------- *)
Min(a, b) == IF a < b THEN a ELSE b

\* the sequences over S of length at most n
SeqsUpTo(S, n) == UNION {[1..k -> S] : k \in 0..n}

\* one element a destination column of class dt may already hold
PriorElem(t, dt) ==
    IF dt = "ColumnString" THEN <<"p">>
    ELSE IF dt = ExpectedDest(t)
    THEN Decoded(t, Encode(t, CHOOSE v \in SourceValues(t) : TRUE), <<>>)
    ELSE Rep(0, 8)

\* a class of column other than the one T's branch casts to
OtherDest(t) == IF t = "StringValue" THEN "ColumnVector<Int64>" ELSE "ColumnString"

\* the destination columns the execution layer may hand over: of the class
\* the branch of T expects (empty, or holding one element with or without
\* spare capacity), or an empty one of another class
DestColumns(t) ==
    (IF t \in SupportedTypes
     THEN {[type |-> ExpectedDest(t), elems |-> <<>>, cap |-> 0],
           [type |-> ExpectedDest(t), elems |-> <<PriorElem(t, ExpectedDest(t))>>,
            cap |-> 1],
           [type |-> ExpectedDest(t), elems |-> <<PriorElem(t, ExpectedDest(t))>>,
            cap |-> 1 + MaxSel]}
     ELSE {[type |-> "ColumnVector<Int64>", elems |-> <<>>, cap |-> 0],
           [type |-> "ColumnVector<Int64>", elems |-> <<Rep(0, 8)>>, cap |-> 1]})
    \cup {[type |-> OtherDest(t), elems |-> <<>>, cap |-> 0]}

\* the selections: indices of rows, and size() itself as the index out of range
Selections == SeqsUpTo(0..Len(data), MaxSel)

\* the history record of one inserted row: the raw value, the semantic value
\* it stands for and, for a string, the bytes and the version of its buffer
\* when it was inserted
Row(raw, src) ==
    [raw  |-> raw,
     src  |-> src,
     snap |-> IF T = "StringValue" THEN BytesAt(bufs, raw.ptr, raw.len) ELSE <<>>,
     ver  |-> IF T = "StringValue" /\ raw.ptr.buf # "null"
              THEN bufs[raw.ptr.buf].ver ELSE 0]

(* ------------------------------ actions -------------------------------- *)
\* PredicateColumnType(): an empty container with no storage
Init ==
    /\ T \in Types
    /\ data = <<>>
    /\ capacity = 0
    /\ bufs = [dict |-> [bytes |-> DictBuffer, ver |-> 0],
               page |-> [bytes |-> PageBuffer, ver |-> 0]]
    /\ status = "running"
    /\ fatalMsg = <<>>
    /\ call = [op |-> "idle"]
    /\ rows = <<>>
    /\ batch = NoBatch

\* an append path that writes at the end pointer with no capacity check: when
\* the elements no longer fit the storage the write is out of bounds
UncheckedAppend(d2, newRows, c) ==
    /\ data' = d2
    /\ rows' = rows \o newRows
    /\ status' \in (IF Len(d2) <= capacity THEN {"running"} ELSE {"segv", "undefined"})
    /\ call' = c
    /\ UNCHANGED <<T, capacity, bufs, fatalMsg>>

Call_reserve ==
    /\ Running
    /\ \E n \in 0..MaxReserve :
         /\ capacity' = PODArray_reserve(capacity, n)
         /\ call' = [op |-> "reserve", n |-> n]
    /\ UNCHANGED <<T, data, bufs, status, fatalMsg, rows, batch>>

Call_clear ==
    /\ Running
    /\ data' = <<>>
    /\ rows' = <<>>
    /\ batch' = NoBatch
    /\ call' = [op |-> "clear"]
    /\ UNCHANGED <<T, capacity, bufs, status, fatalMsg>>

\* faulty variant of insert_default: push_back_without_reserve(T())
Call_insert_default_without_reserve ==
    /\ Running
    /\ UncheckedAppend(push_back_without_reserve(data, DefaultValue(T)),
                       <<Row(DefaultValue(T), DefaultValue(T))>>,
                       [op |-> "insert_default", size |-> Len(data)])
    /\ batch' = NoBatch

Call_insert_default ==
    /\ Running
    /\ PODArray_push_back_capacity(capacity, Len(data)) <= MaxReserve
    /\ capacity' = PODArray_push_back_capacity(capacity, Len(data))
    /\ data' = Append(data, DefaultValue(T))
    /\ rows' = Append(rows, Row(DefaultValue(T), DefaultValue(T)))
    /\ batch' = NoBatch
    /\ call' = [op |-> "insert_default", size |-> Len(data)]
    /\ UNCHANGED <<T, bufs, status, fatalMsg>>

Call_insert_data ==
    /\ Running
    /\ \E v \in SourceValues(T) :
         LET raw    == Encode(T, v)
             \* the value sits in a page followed by further bytes of the page
             p      == IF T = "StringValue" THEN v.ptr ELSE raw \o <<170>>
             length == IF T = "StringValue" THEN v.len ELSE SizeOf(T)
         IN  UncheckedAppend(insert_data(data, T, p, length),
                             <<Row(raw, v)>>,
                             [op |-> "insert_data", size |-> Len(data)])
    /\ batch' = NoBatch

Call_insert_many_fix_len_data ==
    /\ Running
    /\ \E vals \in SeqsUpTo(SourceValues(T), MaxBatch) :
         LET num   == Len(vals)
             bytes == IF T = "StringValue" THEN Rep(0, num * SizeOf(T))
                      ELSE Flatten([i \in 1..num |-> Encode(T, vals[i])])
         IN  /\ UncheckedAppend(
                    insert_many_fix_len_data(data, T, bytes \o <<170>>, num),
                    IF T = "StringValue" THEN <<>>
                    ELSE [i \in 1..num |-> Row(Encode(T, vals[i]), vals[i])],
                    [op |-> "insert_many_fix_len_data", size |-> Len(data),
                     num |-> num])
             /\ batch' = IF data = <<>> THEN [valid |-> TRUE, vals |-> vals]
                         ELSE NoBatch

Call_insert_many_dict_data ==
    /\ Running
    /\ \E codes \in DictCodes :
       \E start \in 0..Len(codes) :
       \E num \in 0..Min(MaxBatch, Len(codes) - start) :
         LET sv(i) == [ptr |-> [buf |-> "dict",
                                off |-> DictOffsets[codes[start + i] + 1]],
                       len |-> DictLengths[codes[start + i] + 1]]
         IN  UncheckedAppend(
                 insert_many_dict_data(data, T, codes, start, DictOffsets,
                                       DictLengths, "dict", num),
                 IF T = "StringValue"
                 THEN [i \in 1..num |-> Row(sv(i), sv(i))]
                 ELSE <<>>,
                 [op |-> "insert_many_dict_data", size |-> Len(data),
                  codes |-> codes, start |-> start, num |-> num])
    /\ batch' = NoBatch

Call_insert_many_binary_data ==
    /\ Running
    /\ \E num \in 0..Min(MaxBatch, Len(PageOffsets)) :
         LET sv(i) == [ptr |-> [buf |-> "page", off |-> PageOffsets[i]],
                       len |-> PageLengths[i]]
         IN  UncheckedAppend(
                 insert_many_binary_data(data, T, "page", PageLengths,
                                         PageOffsets, num),
                 IF T = "StringValue"
                 THEN [i \in 1..num |-> Row(sv(i), sv(i))]
                 ELSE <<>>,
                 [op |-> "insert_many_binary_data", size |-> Len(data),
                  num |-> num])
    /\ batch' = NoBatch

Call_filter_by_selector ==
    /\ Running
    /\ \E sel \in Selections :
       \E col \in DestColumns(T) :
       \E o \in filter_by_selector(T, data, bufs, sel, col) :
         /\ status' = o.status
         /\ fatalMsg' = o.msg
         /\ call' = [op |-> "filter_by_selector", sel |-> sel, col |-> col,
                     ret |-> o.ret, dest |-> o.dest, reads |-> o.reads]
    /\ UNCHANGED <<T, data, capacity, bufs, rows, batch>>

\* the call in progress returns to the scan task
Return ==
    /\ status = "running"
    /\ call.op # "idle"
    /\ call' = [op |-> "idle"]
    /\ UNCHANGED <<T, data, capacity, bufs, status, fatalMsg, rows, batch>>

\* the owner of a buffer that some row points into overwrites one byte of it
OwnerModifiesBuffer ==
    /\ Running
    /\ T = "StringValue"
    /\ \E w \in ModPlaces :
         /\ \E i \in 1..Len(data) : data[i].ptr.buf = w.buf
         /\ bufs[w.buf].bytes[w.pos] # "#"
         /\ bufs' = [bufs EXCEPT ![w.buf] =
                     [bytes |-> [@.bytes EXCEPT ![w.pos] = "#"], ver |-> @.ver + 1]]
    /\ UNCHANGED <<T, data, capacity, status, fatalMsg, call, rows, batch>>

(* --------------------- guarded generic operations ---------------------- *)
\* LOG(FATAL) << msg: glog writes the message and aborts the process; msg is
\* kept as its words
LOG_FATAL(op, msg) ==
    /\ Running
    /\ status' = "fatal"
    /\ fatalMsg' = msg
    /\ call' = [op |-> op]
    /\ UNCHANGED <<T, data, capacity, bufs, rows, batch>>

Call_get_data_at ==
    LOG_FATAL("get_data_at",
              <<"get_data_at", "not", "supported", "in", "PredicateColumnType">>)

Call_insert_from ==
    LOG_FATAL("insert_from",
              <<"insert_from", "not", "supported", "in", "PredicateColumnType">>)

Call_insert_range_from ==
    LOG_FATAL("insert_range_from",
              <<"insert_range_from", "not", "supported", "in", "PredicateColumnType">>)

Call_insert_indices_from ==
    LOG_FATAL("insert_indices_from",
              <<"insert_indices_from", "not", "supported", "in", "PredicateColumnType">>)

\* faulty variant of pop_back: removes the last element and returns
Call_pop_back_pops ==
    /\ Running
    /\ data' = SubSeq(data, 1, Len(data) - 1)
    /\ rows' = SubSeq(rows, 1, Len(rows) - 1)
    /\ call' = [op |-> "pop_back"]
    /\ UNCHANGED <<T, capacity, bufs, status, fatalMsg, batch>>

Call_pop_back ==
    LOG_FATAL("pop_back",
              <<"pop_back", "not", "supported", "in", "PredicateColumnType">>)

Call_update_hash_with_value ==
    LOG_FATAL("update_hash_with_value",
              <<"update_hash_with_value", "not", "supported", "in", "PredicateColumnType">>)

Call_get_permutation ==
    LOG_FATAL("get_permutation",
              <<"get_permutation", "not", "supported", "in", "PredicateColumnType">>)

Call_get_family_name ==
    LOG_FATAL("get_family_name",
              <<"get_family_name", "not", "supported", "in", "PredicateColumnType">>)

Call_clone_resized ==
    LOG_FATAL("clone_resized",
              <<"clone_resized", "not", "supported", "in", "PredicateColumnType">>)

Call_insert ==
    LOG_FATAL("insert",
              <<"insert", "not", "supported", "in", "PredicateColumnType">>)

Call_operator_subscript ==
    LOG_FATAL("operator[]",
              <<"operator[]", "not", "supported", "in", "PredicateColumnType">>)

Call_get ==
    LOG_FATAL("get",
              <<"get", "field", "not", "supported", "in", "PredicateColumnType">>)

Call_get64 ==
    LOG_FATAL("get64",
              <<"get", "field", "not", "supported", "in", "PredicateColumnTyped">>)

Call_get_float64 ==
    LOG_FATAL("get_float64",
              <<"get", "field", "not", "supported", "in", "PredicateColumnType">>)

Call_get_uint ==
    LOG_FATAL("get_uint",
              <<"get", "field", "not", "supported", "in", "PredicateColumnType">>)

Call_get_bool ==
    LOG_FATAL("get_bool",
              <<"get", "field", "not", "supported", "in", "PredicateColumnType">>)

Call_get_int ==
    LOG_FATAL("get_int",
              <<"get", "field", "not", "supported", "in", "PredicateColumnType">>)

Call_serialize_value_into_arena ==
    LOG_FATAL("serialize_value_into_arena",
              <<"serialize_value_into_arena", "not", "supported", "in", "PredicateColumnType">>)

Call_deserialize_and_insert_from_arena ==
    LOG_FATAL("deserialize_and_insert_from_arena",
              <<"deserialize_and_insert_from_arena", "not", "supported", "in", "PredicateColumnType">>)

Call_compare_at ==
    LOG_FATAL("compare_at",
              <<"compare_at", "not", "supported", "in", "PredicateColumnType">>)

Call_get_extremes ==
    LOG_FATAL("get_extremes",
              <<"get_extremes", "not", "supported", "in", "PredicateColumnType">>)

Call_get_raw_data ==
    LOG_FATAL("get_raw_data",
              <<"get_raw_data", "not", "supported", "in", "PredicateColumnType">>)

Call_structure_equals ==
    LOG_FATAL("structure_equals",
              <<"structure_equals", "not", "supported", "in", "PredicateColumnType">>)

Call_filter ==
    LOG_FATAL("filter",
              <<"filter", "not", "supported", "in", "PredicateColumnType">>)

Call_permute ==
    LOG_FATAL("permute",
              <<"permute", "not", "supported", "in", "PredicateColumnType">>)

Call_replicate ==
    LOG_FATAL("replicate",
              <<"replicate", "not", "supported", "in", "PredicateColumnType">>)

Call_scatter ==
    LOG_FATAL("scatter",
              <<"scatter", "not", "supported", "in", "PredicateColumnType">>)

Call_replace_column_data ==
    LOG_FATAL("replace_column_data",
              <<"should", "not", "call", "replace_column_data", "in", "predicate", "column">>)

Call_replace_column_data_default ==
    LOG_FATAL("replace_column_data_default",
              <<"should", "not", "call", "replace_column_data_default", "in", "predicate", "column">>)

\* the operations whose body is a LOG(FATAL)
GuardedOps ==
    {"get_data_at",
     "insert_from",
     "insert_range_from",
     "insert_indices_from",
     "pop_back",
     "update_hash_with_value",
     "get_permutation",
     "get_family_name",
     "clone_resized",
     "insert",
     "operator[]",
     "get",
     "get64",
     "get_float64",
     "get_uint",
     "get_bool",
     "get_int",
     "serialize_value_into_arena",
     "deserialize_and_insert_from_arena",
     "compare_at",
     "get_extremes",
     "get_raw_data",
     "structure_equals",
     "filter",
     "permute",
     "replicate",
     "scatter",
     "replace_column_data",
     "replace_column_data_default"}

Guarded ==
    \/ Call_get_data_at
    \/ Call_insert_from
    \/ Call_insert_range_from
    \/ Call_insert_indices_from
    \/ Call_pop_back
    \/ Call_update_hash_with_value
    \/ Call_get_permutation
    \/ Call_get_family_name
    \/ Call_clone_resized
    \/ Call_insert
    \/ Call_operator_subscript
    \/ Call_get
    \/ Call_get64
    \/ Call_get_float64
    \/ Call_get_uint
    \/ Call_get_bool
    \/ Call_get_int
    \/ Call_serialize_value_into_arena
    \/ Call_deserialize_and_insert_from_arena
    \/ Call_compare_at
    \/ Call_get_extremes
    \/ Call_get_raw_data
    \/ Call_structure_equals
    \/ Call_filter
    \/ Call_permute
    \/ Call_replicate
    \/ Call_scatter
    \/ Call_replace_column_data
    \/ Call_replace_column_data_default

Next ==
    \/ Call_reserve
    \/ Call_clear
    \/ Call_insert_default
    \/ Call_insert_data
    \/ Call_insert_many_fix_len_data
    \/ Call_insert_many_dict_data
    \/ Call_insert_many_binary_data
    \/ Call_filter_by_selector
    \/ Return
    \/ OwnerModifiesBuffer
    \/ Guarded

Spec == Init /\ [][Next]_vars

(* ------------------------------ claims --------------------------------- *)
\* a call of filter_by_selector has just ended (it has not yet returned)
FilterCalled == call.op = "filter_by_selector"

\* every index of the selection is a row of the container
SelInRange == \A k \in 1..Len(call.sel) : call.sel[k] < Len(data)

\* the values the call appended to the destination
Appended == SubSeq(call.dest, Len(call.col.elems) + 1, Len(call.dest))

\* the container holds exactly the rows of the history, in order
DataIsRows == Len(data) = Len(rows) /\ \A i \in 1..Len(rows) : data[i] = rows[i].raw

\* the value a semantic source value is in the destination's terms
SemanticValue(t, v, m) == IF t = "StringValue" THEN BytesAt(m, v.ptr, v.len) ELSE v

\* C1 as stated (the destination read as a column of the class the decode table
\* lists for T): for a supported T and a selection within size(),
\* filter_by_selector returns OK and appends the decoded values of the selected
\* rows, in selection order, to whatever the destination held.
C1_Original ==
    (FilterCalled /\ T \in SupportedTypes /\ SelInRange
        /\ call.col.type = ExpectedDest(T))
    => /\ status = "running"
       /\ call.ret = "OK"
       /\ Appended = [k \in 1..Len(call.sel) |->
                         Decoded(T, data[call.sel[k] + 1], bufs)]

\* C1 amended: for a supported T, a selection within size() and a destination
\* of the class the decode table lists for T that, on the direct-copy path
\* (Int8..Int64, Float32, Float64, Int128), starts empty, filter_by_selector
\* returns OK, keeps what the destination held and appends exactly n values, the
\* k-th being the decoded value of row sel[k].
C1_SelectedRowsInOrder ==
    (FilterCalled /\ T \in SupportedTypes /\ SelInRange
        /\ call.col.type = ExpectedDest(T)
        /\ (T \in DirectCopyTypes => call.col.elems = <<>>))
    => /\ status = "running"
       /\ call.ret = "OK"
       /\ Len(call.dest) = Len(call.col.elems) + Len(call.sel)
       /\ SubSeq(call.dest, 1, Len(call.col.elems)) = call.col.elems
       /\ Appended = [k \in 1..Len(call.sel) |->
                         Decoded(T, data[call.sel[k] + 1], bufs)]

\* C1 witness: two different dates selected in reverse order and appended to a
\* destination that already held a value
C1_Witness ==
    /\ FilterCalled /\ T = "uint24_t" /\ status = "running" /\ call.ret = "OK"
    /\ call.sel = <<1, 0>>
    /\ call.col.elems # <<>>
    /\ Len(call.dest) = 3
    /\ call.dest[2] # call.dest[3]

\* C2: while every append was made within the reserved capacity, the container
\* holds one raw value per row inserted since the last clear, in insertion
\* order (size() is the number of those rows, element i is the i-th of them),
\* and a call that appends leaves the elements that were there unchanged.
C2_OneRawValuePerRow ==
    [][status' = "running"
        => /\ Len(data') = Len(rows')
           /\ \A i \in 1..Len(rows') : data'[i] = rows'[i].raw
           /\ (call'.op \in {"insert_data", "insert_many_fix_len_data",
                             "insert_many_dict_data", "insert_many_binary_data"}
                 => /\ Len(data') >= Len(data)
                    /\ SubSeq(data', 1, Len(data)) = data)]_vars

\* C2 witness: a decimal appended by the batch path behind a different one
C2_Witness ==
    /\ status = "running" /\ T = "decimal12_t"
    /\ call.op = "insert_many_fix_len_data" /\ call.size = 1 /\ call.num = 1
    /\ Len(data) = 2
    /\ data[1] # data[2]

\* a (T, destination class) pairing the decode-rule table lists
InDecodeTable(t, dt) == t \in SupportedTypes /\ dt = ExpectedDest(t)

\* C3 as stated: for every pairing of T and destination class that the decode
\* table does not list, filter_by_selector returns NotSupported (no OK, no
\* failure of the process), having appended nothing and left the container alone.
C3_Original ==
    (FilterCalled /\ ~InDecodeTable(T, call.col.type))
    => /\ status = "running"
       /\ call.ret = "NotSupported"
       /\ call.dest = call.col.elems
       /\ DataIsRows

\* C3 amended: filter_by_selector returns NotSupported exactly when T has no
\* branch (T outside the twelve supported types), whatever the class of the
\* destination; it then has appended nothing and left the container alone.  The
\* class of the destination is never inspected.
C3_NotSupportedIffNoBranch ==
    FilterCalled
    => /\ (T \notin SupportedTypes
             => /\ status = "running"
                /\ call.ret = "NotSupported"
                /\ call.dest = call.col.elems
                /\ call.reads = <<>>
                /\ DataIsRows)
       /\ (call.ret = "NotSupported" => T \notin SupportedTypes)

\* C3 witness: NotSupported for a T without a branch, on a non-empty selection
\* and a destination that held a value
C3_Witness ==
    /\ FilterCalled /\ T = "UInt32" /\ call.ret = "NotSupported"
    /\ Len(call.sel) = 2
    /\ Len(data) = 2
    /\ call.col.elems # <<>>
    /\ call.dest = call.col.elems

\* C4 as stated: when an index of the selection is at or beyond size(), the
\* call ends in a defined failure, having read no slot at an index >= size() and
\* appended nothing that comes from such a slot.
C4_Original ==
    (FilterCalled /\ ~SelInRange)
    => /\ \/ status = "fatal"
          \/ status = "running" /\ call.ret # "OK"
       /\ \A k \in 1..Len(call.reads) : call.reads[k] < Len(data)
       /\ call.dest = call.col.elems

\* the call in progress is one of the guarded generic operations
GuardedCalled == call.op \in GuardedOps

\* C5: a call of a guarded generic operation, in any state of the container and
\* for any T, ends in the process aborted; it does not return and it leaves the
\* container as it was.
C5_GuardedOpsAbort ==
    [][call'.op \in GuardedOps
        => /\ status' = "fatal"
           /\ data' = data
           /\ capacity' = capacity
           /\ rows' = rows]_vars

\* C5 witness: structure_equals aborted on a string container holding two rows
C5_Witness ==
    /\ call.op = "structure_equals" /\ status = "fatal"
    /\ T = "StringValue"
    /\ Len(data) = 2

\* the words of a message
Words(msg) == {msg[i] : i \in 1..Len(msg)}

\* C6 as stated: the message of the failure a guarded operation raises names
\* that operation.
C6_Original == (GuardedCalled /\ status = "fatal") => call.op \in Words(fatalMsg)

\* the batch that filled the container, selected in full into a fresh empty
\* destination of the class the decode table lists for T
RoundTripCalled ==
    /\ FilterCalled
    /\ batch.valid
    /\ Len(batch.vals) >= 1
    /\ Len(batch.vals) <= capacity
    /\ call.sel = [k \in 1..Len(batch.vals) |-> k - 1]
    /\ call.col.type = ExpectedDest(T)
    /\ call.col.elems = <<>>

\* C7 as stated: for every supported T, N raw values inserted by
\* insert_many_fix_len_data into a container reserved for N and then selected
\* in full come out as the N semantic source values, in order.
C7_Original ==
    (RoundTripCalled /\ T \in SupportedTypes)
    => /\ status = "running"
       /\ call.ret = "OK"
       /\ call.dest = [k \in 1..Len(batch.vals) |->
                          SemanticValue(T, batch.vals[k], bufs)]

\* C7 amended: the same for every supported T other than the string T (for
\* which insert_many_fix_len_data inserts nothing).
C7_RoundTrip ==
    (RoundTripCalled /\ T \in SupportedTypes \ {"StringValue"})
    => /\ status = "running"
       /\ call.ret = "OK"
       /\ call.dest = [k \in 1..Len(batch.vals) |->
                          SemanticValue(T, batch.vals[k], bufs)]

\* C7 witness: two different dates make the round trip
C7_Witness ==
    /\ RoundTripCalled /\ T = "uint24_t" /\ call.ret = "OK"
    /\ Len(batch.vals) = 2
    /\ batch.vals[1] # batch.vals[2]
    /\ call.dest = batch.vals
    /\ call.dest[1].year = 2022 \/ call.dest[2].year = 2022

\* the descriptor of dictionary code c under the offset and length tables
DictEntry(c) ==
    [ptr |-> [buf |-> "dict", off |-> DictOffsets[c + 1]], len |-> DictLengths[c + 1]]

\* C8: for the string T, insert_many_dict_data appends exactly count
\* descriptors, the i-th pointing at dict_buffer + offsets[codes[start_index + i]]
\* with length lengths[codes[start_index + i]]; and filter_by_selector turns a
\* row that points into the dictionary buffer into the bytes of the buffer at
\* that offset and length, in selection order.
C8_DictRowsAndSubstrings ==
    /\ (call.op = "insert_many_dict_data" /\ T = "StringValue" /\ status = "running")
       => /\ Len(data) = call.size + call.num
          /\ \A i \in 1..call.num :
               data[call.size + i] = DictEntry(call.codes[call.start + i])
    /\ (FilterCalled /\ T = "StringValue" /\ status = "running"
          /\ call.col.type = "ColumnString")
       => /\ call.ret = "OK"
          /\ Len(Appended) = Len(call.sel)
          /\ \A k \in 1..Len(call.sel) :
               LET sv == data[call.sel[k] + 1]
               IN  sv.ptr.buf = "dict"
                   => Appended[k] = SubSeq(bufs["dict"].bytes, sv.ptr.off + 1,
                                           sv.ptr.off + sv.len)

\* C8 witness: the rows of codes 2 and 0 (offsets 9 and 5, lengths 3 and 4),
\* selected as <<1, 0>>, come out as "abcd" then "xyz"
C8_Witness ==
    /\ FilterCalled /\ T = "StringValue" /\ status = "running"
    /\ data = <<DictEntry(2), DictEntry(0)>>
    /\ call.sel = <<1, 0>>
    /\ call.col.elems = <<>>
    /\ call.dest = << <<"a", "b", "c", "d">>, <<"x", "y", "z">> >>

\* C9 as stated: whatever was reserved, the number of stored elements never
\* exceeds the allocated capacity (no append writes past the storage).
C9_Original == Len(data) <= capacity

\* C9 amended: insert_default grows the storage when it is full; every other
\* append writes at the end with no capacity check, so the number of stored
\* elements stays within the capacity as long as each of those calls finds room
\* for its rows (size() + count <= capacity); a call that does not writes past
\* the end of the storage.
C9_WithinReservedCapacity ==
    /\ status = "running" => Len(data) <= capacity
    /\ call.op = "insert_default"
       => status = "running" /\ Len(data) = call.size + 1
    /\ (call.op \in {"insert_data", "insert_many_fix_len_data",
                     "insert_many_dict_data", "insert_many_binary_data"}
          /\ status # "running")
       => Len(data) > capacity

\* C9 witness: insert_default on a full container made room and appended
C9_Witness ==
    /\ call.op = "insert_default" /\ status = "running"
    /\ call.size = 1
    /\ Len(data) = 2
    /\ capacity = 2

\* no byte of the buffer behind row i was written since the row was inserted
Unmodified(i) ==
    rows[i].raw.ptr.buf = "null" \/ bufs[rows[i].raw.ptr.buf].ver = rows[i].ver

\* C10: for the string T an inserted row is only the (pointer, length) it was
\* given; filter_by_selector copies the bytes the buffer holds at that range when
\* it runs, which are the bytes of insertion time whenever the buffer was not
\* written in between.
C10_BytesCopiedAtMaterialization ==
    /\ (T = "StringValue" /\ status = "running")
       => \A i \in 1..Len(data) : data[i] = [ptr |-> rows[i].raw.ptr, len |-> rows[i].raw.len]
    /\ (FilterCalled /\ T = "StringValue" /\ status = "running"
          /\ call.col.type = "ColumnString")
       => \A k \in 1..Len(call.sel) :
            LET i == call.sel[k] + 1
            IN  /\ Appended[k] = BytesAt(bufs, data[i].ptr, data[i].len)
                /\ Unmodified(i) => Appended[k] = rows[i].snap

\* C10 witness: a row whose buffer was written after its insertion comes out
\* with the new bytes, beside a row that comes out as it was inserted
C10_Witness ==
    /\ FilterCalled /\ T = "StringValue" /\ status = "running"
    /\ call.col.type = "ColumnString"
    /\ Len(call.sel) = 2
    /\ ~Unmodified(call.sel[1] + 1)
    /\ Appended[1] # rows[call.sel[1] + 1].snap
    /\ Unmodified(call.sel[2] + 1)
    /\ Appended[2] = rows[call.sel[2] + 1].snap
    /\ Appended[2] # <<>>

====
